---- MODULE Spec2Model ----
(***************************************************************************)
(* A model of the country-dependent address form of                        *)
(* src/components/I18nAddressFields.js: the pure helpers                   *)
(* (wrangleAddressData, getAddressFieldDifferences, serializeAddress),     *)
(* the ZoneSelect component with its option list and reset effect, and     *)
(* the I18nAddressFields component with its asynchronous schema fetch.     *)
(*                                                                         *)
(* Representation of JavaScript values:                                    *)
(*   - a string the code scans character by character (the format          *)
(*     template) is a sequence of one-character strings;                   *)
(*   - an object is the sequence of its <<key, value>> entries in          *)
(*     insertion order (what Object.keys / Object.entries enumerate);      *)
(*   - an array is a sequence;                                             *)
(*   - a value that may be null/undefined is Nil (<<>>) or Some(x)         *)
(*     (<<x>>); a field value (string or null) is a string, with NullV     *)
(*     standing for null;                                                  *)
(*   - a call that may throw returns [threw |-> BOOLEAN, ret |-> ...].     *)
(***************************************************************************)
EXTENDS Integers, Sequences, FiniteSets, TLC

VARIABLES
  \* ---- the I18nAddressFields component and its caller ----
  mounted,          \* "no" (not yet mounted), "yes", "gone" (unmounted); "off" when
                    \* only the pure helpers are exercised
  selectedCountry,  \* prop: the caller's country code, or NoCountry
  value,            \* prop: the caller's AddressValue, Nil for null
  data,             \* state (line 336): Nil or Some(schema)
  fields,           \* state (line 337): Nil or Some(field list)
  loading,          \* state (line 338)
  fetches,          \* every fetchData() call so far, in order of its start: the
                    \* country asked for, the value prop its closure holds, its
                    \* status, and whether it completed after a later call started
  ev,               \* what the last step called and set
  fieldsFrom,       \* index in fetches of the call whose setFields is held, 0 if none
  dataFrom,         \* index in fetches of the call whose setData is held, 0 if none
  emitFrom,         \* index in fetches of the call that last emitted a reconciled value
  locale,           \* intl.locale, which the effect of lines 341-345 hands to
                    \* addressFormatter
  \* ---- the pure helpers, applied to drawn inputs ----
  pc,               \* "schema", "wrangled" or "reconciled"
  schemaIn,         \* the schema handed to wrangleAddressData
  wrangled,         \* its outcome
  objIn,            \* the object handed to getAddressFieldDifferences, Nil before
  objAfter,         \* the same object after the call
  recRet,           \* the outcome of getAddressFieldDifferences
  \* ---- one ZoneSelect and the caller that holds its value ----
  zpc,              \* "off" (not yet mounted), "on"; "idle" when not exercised
  zinfo,            \* prop info: Nil (undefined) or Some(array of zones)
  zvalue,           \* prop value: a zone name, "" or NullV
  zoneOptions,      \* the memoized option list (line 105)
  zev,              \* what the last step was and the onChange call its effect made
  \* ---- serializeAddress, applied to drawn inputs ----
  spc,              \* "in", "out"; "idle" when not exercised
  serIn,            \* the object handed to serializeAddress, Nil before
  serOut            \* the string returned, as its characters

compVars == <<mounted, selectedCountry, value, data, fields, loading, fetches, ev,
              fieldsFrom, dataFrom, emitFrom, locale>>
pureVars == <<pc, schemaIn, wrangled, objIn, objAfter, recRet>>
zoneVars == <<zpc, zinfo, zvalue, zoneOptions, zev>>
serVars == <<spc, serIn, serOut>>
vars == <<compVars, pureVars, zoneVars, serVars>>

\* ------------------------------------------------------------------ bounds

MaxPieces == 3      \* pieces of a drawn format template
MaxValueKeys == 2   \* entries of a drawn AddressValue
MaxFetches == 2     \* fetchData() calls in one run of the component
MaxZones == 2       \* zones of a drawn zone list

\* ------------------------------------------------------------------ values

Nil == <<>>
Some(x) == <<x>>
NullV == "<null>"

Range(s) == {s[i] : i \in 1..Len(s)}

\* Array.prototype.indexOf: the first index (from 1 here), 0 when absent.
IndexOf(s, x) ==
  IF \E i \in 1..Len(s) : s[i] = x
  THEN CHOOSE i \in 1..Len(s) : s[i] = x /\ \A j \in 1..(i - 1) : s[j] # x
  ELSE 0

\* Array.prototype.includes
Includes(s, x) == \E i \in 1..Len(s) : s[i] = x

\* Object.keys
Keys(obj) == [i \in 1..Len(obj) |-> obj[i][1]]

\* obj[k] for a key the object has
Get(obj, k) == obj[IndexOf(Keys(obj), k)][2]

HasKey(obj, k) == Includes(Keys(obj), k)

\* ------------------------------------------------------------------ characters

Letters ==
  {"a", "b", "c", "d", "e", "f", "g", "h", "i", "j", "k", "l", "m", "n", "o", "p",
   "q", "r", "s", "t", "u", "v", "w", "x", "y", "z",
   "A", "B", "C", "D", "E", "F", "G", "H", "I", "J", "K", "L", "M", "N", "O", "P",
   "Q", "R", "S", "T", "U", "V", "W", "X", "Y", "Z"}
Digits == {"0", "1", "2", "3", "4", "5", "6", "7", "8", "9"}
\* \w of a JavaScript regular expression
WordChars == Letters \cup Digits \cup {"_"}

\* The character sequences of the strings the code compares tokens with.
Chars(name) ==
  CASE name = "address1" -> <<"a", "d", "d", "r", "e", "s", "s", "1">>
    [] name = "address2" -> <<"a", "d", "d", "r", "e", "s", "s", "2">>
    [] name = "city"     -> <<"c", "i", "t", "y">>
    [] name = "zip"      -> <<"z", "i", "p">>
    [] name = "province" -> <<"p", "r", "o", "v", "i", "n", "c", "e">>
    [] name = "country"  -> <<"c", "o", "u", "n", "t", "r", "y">>
    [] name = "x"        -> <<"x">>
    [] name = "zone"     -> <<"z", "o", "n", "e">>
    [] name = "California" -> <<"C", "a", "l", "i", "f", "o", "r", "n", "i", "a">>
    [] name = "Main St"  -> <<"M", "a", "i", "n", " ", "S", "t">>
    [] name = "CA" ->
         <<"C", "A">>
    [] name = "aargau" ->
         <<"a", "a", "r", "g", "a", "u">>
    [] name = "AG" ->
         <<"A", "G">>
    [] name = "Dadra and Nagar Haveli and Daman and Diu" ->
         <<"D", "a", "d", "r", "a", " ", "a", "n", "d", " ", "N", "a", "g",
           "a", "r", " ", "H", "a", "v", "e", "l", "i", " ", "a", "n", "d",
           " ", "D", "a", "m", "a", "n", " ", "a", "n", "d", " ", "D", "i",
           "u">>
    [] name = "DH" ->
         <<"D", "H">>
    [] name = "Dadra and Nagar Haveli and Daman" ->
         <<"D", "a", "d", "r", "a", " ", "a", "n", "d", " ", "N", "a", "g",
           "a", "r", " ", "H", "a", "v", "e", "l", "i", " ", "a", "n", "d",
           " ", "D", "a", "m", "a", "n">>
    [] name = "DZ" ->
         <<"D", "Z">>
    [] name = "Federal Capital Territory Area" ->
         <<"F", "e", "d", "e", "r", "a", "l", " ", "C", "a", "p", "i", "t",
           "a", "l", " ", "T", "e", "r", "r", "i", "t", "o", "r", "y", " ",
           "A", "r", "e", "a">>
    [] name = "FC" ->
         <<"F", "C">>

\* ------------------------------------------------------------------ wrangleAddressData

necessaryFields == <<"address1", "address2", "city", "zip", "province">>

\* The last index of the run of \w characters that starts at i.
RECURSIVE WordEnd(_, _)
WordEnd(s, i) ==
  IF i < Len(s) /\ s[i + 1] \in WordChars THEN WordEnd(s, i + 1) ELSE i

\* formLayout.match(/([A-Za-z])\w+/g), scanning from index i: every leftmost,
\* longest run made of a letter followed by at least one \w character.
RECURSIVE MatchFrom(_, _)
MatchFrom(s, i) ==
  IF i > Len(s) THEN <<>>
  ELSE IF s[i] \in Letters /\ i < Len(s) /\ s[i + 1] \in WordChars
       THEN LET j == WordEnd(s, i + 1)
            IN <<SubSeq(s, i, j)>> \o MatchFrom(s, j + 1)
       ELSE MatchFrom(s, i + 1)

\* String.prototype.match with a global regular expression: null when nothing matches.
RegexMatch(s) ==
  LET m == MatchFrom(s, 1) IN IF m = <<>> THEN Nil ELSE Some(m)

\* match => necessaryFields.includes(match), on a token's characters
IsNecessary(tok) == \E i \in 1..Len(necessaryFields) : Chars(necessaryFields[i]) = tok

\* The string a necessary token spells.
TokenName(tok) ==
  necessaryFields[CHOOSE i \in 1..Len(necessaryFields) : Chars(necessaryFields[i]) = tok]

\* lines 40-48
MapMatch(name) ==
  IF name = "zip" THEN "postalCode"
  ELSE IF name = "province" THEN "zone"
  ELSE name

\* Array.prototype.sort (stable) of label entries by mappedMatches.indexOf(entry[0])
RECURSIVE InsertByIndex(_, _, _)
InsertByIndex(sorted, e, mm) ==
  IF sorted = <<>> THEN <<e>>
  ELSE IF IndexOf(mm, e[1]) < IndexOf(mm, Head(sorted)[1])
       THEN <<e>> \o sorted
       ELSE <<Head(sorted)>> \o InsertByIndex(Tail(sorted), e, mm)

\* The sort left out: the label entries stay in the order of the labels object.
SortByIndex_unsorted(entries, mm) == entries

RECURSIVE SortByIndex(_, _)
SortByIndex(entries, mm) ==
  IF entries = <<>> THEN <<>>
  ELSE InsertByIndex(SortByIndex(SubSeq(entries, 1, Len(entries) - 1), mm),
                     entries[Len(entries)], mm)

\* wrangleAddressData(addressInfo) for the object fetchData hands it:
\* addressInfo = [edit |-> Nil or Some(template), labels |-> object,
\*                optionalLabels |-> object, zones |-> Nil or Some(array)].
\* A field of the result is <<name, label>> or, for zone, <<name, label, zones>>.
wrangleAddressData(addressInfo) ==
  IF addressInfo.edit = Nil
  THEN [threw |-> TRUE, ret |-> <<>>]          \* formLayout is undefined: .match throws
  ELSE
    LET formLayout == addressInfo.edit[1]
        found == RegexMatch(formLayout)
    IN IF found = Nil
       THEN [threw |-> TRUE, ret |-> <<>>]     \* null.filter throws
       ELSE
         LET matches == SelectSeq(found[1], IsNecessary)
             mappedMatches == [i \in 1..Len(matches) |-> MapMatch(TokenName(matches[i]))]
             InMapped(entry) == Includes(mappedMatches, entry[1])
             addressFormFields ==
               SortByIndex(SelectSeq(addressInfo.labels, InMapped), mappedMatches)
             zones == IF addressInfo.zones = Nil THEN <<>> ELSE addressInfo.zones[1]
         IN IF Includes(mappedMatches, "zone") /\ zones # <<>>
            THEN LET zoneIndex == IndexOf(Keys(addressFormFields), "zone")
                 IN IF zoneIndex = 0
                    THEN [threw |-> TRUE, ret |-> <<>>]   \* undefined.push throws
                    ELSE [threw |-> FALSE,
                          ret |-> [addressFormFields EXCEPT
                                     ![zoneIndex] = Append(@, zones)]]
            ELSE [threw |-> FALSE, ret |-> addressFormFields]

\* ------------------------------------------------------------------ getAddressFieldDifferences

\* lodash pick(object, paths): a new object holding, in the order of paths, the
\* entries of object whose key is one of paths.
pick(obj, paths) ==
  LET present == SelectSeq(paths, LAMBDA k : HasKey(obj, k))
  IN [i \in 1..Len(present) |-> <<present[i], Get(obj, present[i])>>]

\* The pruning left out: the previous value is handed back as it is.
getAddressFieldDifferences_keepAll(formAddressValues, addressFields) ==
  [threw |-> formAddressValues = Nil, same |-> formAddressValues # Nil,
   ret |-> IF formAddressValues = Nil THEN <<>> ELSE formAddressValues[1],
   arg |-> formAddressValues]

\* The pruning done in place: the keys outside the field set are deleted from
\* the previous value itself, which is handed back.
getAddressFieldDifferences_inPlace(formAddressValues, addressFields) ==
  LET addressFieldsArray == [i \in 1..Len(addressFields) |-> addressFields[i][1]]
  IN IF formAddressValues = Nil
     THEN [threw |-> TRUE, same |-> FALSE, ret |-> <<>>, arg |-> formAddressValues]
     ELSE LET kept == SelectSeq(formAddressValues[1],
                                LAMBDA e : Includes(addressFieldsArray, e[1]))
          IN [threw |-> FALSE, same |-> TRUE, ret |-> kept, arg |-> Some(kept)]

\* getAddressFieldDifferences(formAddressValues, addressFields), with
\* formAddressValues Nil (null) or Some(object). same tells whether the value
\* returned is the argument object itself, arg is the argument object after the call.
getAddressFieldDifferences(formAddressValues, addressFields) ==
  LET addressFieldsArray == [i \in 1..Len(addressFields) |-> addressFields[i][1]]
  IN IF formAddressValues = Nil
     THEN [threw |-> TRUE, same |-> FALSE, ret |-> <<>>, arg |-> formAddressValues]
          \* Object.keys(null) throws
     ELSE
       LET obj == formAddressValues[1]
           differenceInAddressFields ==
             SelectSeq(Keys(obj), LAMBDA key : ~Includes(addressFieldsArray, key)) # <<>>
       IN IF differenceInAddressFields
          THEN [threw |-> FALSE, same |-> FALSE,
                ret |-> pick(obj, addressFieldsArray), arg |-> formAddressValues]
          ELSE [threw |-> FALSE, same |-> TRUE, ret |-> obj, arg |-> formAddressValues]

\* ------------------------------------------------------------------ serializeAddress

\* The keys of the model in the order Array.prototype.sort() puts them (by
\* UTF-16 code unit).
KeysInOrder == <<"address1", "address2", "city", "country", "postalCode", "zone">>

\* The sort left out: the keys in insertion order.
SortedKeys_unsorted(address) == Keys(address)

\* Object.keys(address).sort()
SortedKeys(address) == SelectSeq(KeysInOrder, LAMBDA k : HasKey(address, k))

\* A join that leaves the null elements out, separator included.
RECURSIVE JoinLines_skipNull(_)
JoinLines_skipNull(vals) ==
  IF vals = <<>> THEN <<>>
  ELSE IF Head(vals) = NullV THEN JoinLines_skipNull(Tail(vals))
  ELSE LET rest == JoinLines_skipNull(Tail(vals))
       IN IF rest = <<>> THEN Chars(Head(vals))
          ELSE Chars(Head(vals)) \o <<"\n">> \o rest

\* Array.prototype.join('\n'), to a sequence of characters: null joins as the
\* empty string.
RECURSIVE JoinLines(_)
JoinLines(vals) ==
  IF vals = <<>> THEN <<>>
  ELSE LET first == IF Head(vals) = NullV THEN <<>> ELSE Chars(Head(vals))
       IN IF Len(vals) = 1 THEN first
          ELSE first \o <<"\n">> \o JoinLines(Tail(vals))

\* serializeAddress(address), lines 66-71
serializeAddress(address) ==
  LET keys == SortedKeys(address)
  IN JoinLines([i \in 1..Len(keys) |-> Get(address, keys[i])])

\* ------------------------------------------------------------------ drawn inputs

Brace(name) == <<"{">> \o Chars(name) \o <<"}">>

\* The pieces drawn templates are made of: three recognized tokens and one the
\* code does not know.
Pieces == {Brace("address1"), Brace("zip"), Brace("province"), Brace("country")}

RECURSIVE Flatten(_)
Flatten(ss) == IF ss = <<>> THEN <<>> ELSE Head(ss) \o Flatten(Tail(ss))

SeqsUpTo(S, n) == UNION {[1..k -> S] : k \in 0..n}

Templates == {Flatten(ps) : ps \in SeqsUpTo(Pieces, MaxPieces)}

LabelsFull ==
  <<<<"address1", "Address">>, <<"city", "City">>, <<"country", "Country">>,
    <<"postalCode", "Postal code">>, <<"zone", "State">>>>
LabelsNoZone ==
  <<<<"postalCode", "Postal code">>, <<"city", "City">>, <<"address1", "Address">>>>

ZonesUS == <<[code |-> "CA", name |-> "California"], [code |-> "NY", name |-> "New York"]>>

DrawnSchemas ==
  {[edit |-> e, labels |-> l, optionalLabels |-> <<>>, zones |-> z] :
     e \in {Nil} \cup {Some(t) : t \in Templates},
     l \in {LabelsFull, LabelsNoZone},
     z \in {Nil, Some(ZonesUS)}}

ValueKeyPool == {"address1", "zone", "country"}
FieldValuePool == {"x", NullV}

Distinct(s) == \A i, j \in 1..Len(s) : i # j => s[i] # s[j]

\* Objects of at most MaxValueKeys entries, in every insertion order.
DrawnObjects ==
  {o \in SeqsUpTo(ValueKeyPool \X FieldValuePool, MaxValueKeys) : Distinct(Keys(o))}

DrawnValues == {Nil} \cup {Some(o) : o \in DrawnObjects}

\* ------------------------------------------------------------------ the pure helpers, applied

PureIdle ==
  /\ pc = "idle"
  /\ schemaIn = Nil
  /\ wrangled = Nil
  /\ objIn = Nil
  /\ objAfter = Nil
  /\ recRet = Nil

PureInit ==
  /\ pc = "schema"
  /\ schemaIn \in {Some(s) : s \in DrawnSchemas}
  /\ wrangled = Nil
  /\ objIn = Nil
  /\ objAfter = Nil
  /\ recRet = Nil

\* const addressFields = wrangleAddressData(countryInfo)
Wrangle ==
  /\ pc = "schema"
  /\ wrangled' = Some(wrangleAddressData(schemaIn[1]))
  /\ pc' = "wrangled"
  /\ UNCHANGED <<schemaIn, objIn, objAfter, recRet>>

\* getAddressFieldDifferences(value, addressFields) on the fields just resolved
Reconcile(v) ==
  /\ pc = "wrangled"
  /\ ~wrangled[1].threw
  /\ LET r == getAddressFieldDifferences(v, wrangled[1].ret)
     IN /\ objIn' = Some(v)
        /\ objAfter' = Some(r.arg)
        /\ recRet' = Some([threw |-> r.threw, same |-> r.same, ret |-> r.ret])
  /\ pc' = "reconciled"
  /\ UNCHANGED <<schemaIn, wrangled>>

\* ------------------------------------------------------------------ ZoneSelect

\* The printable ASCII characters in the order of their UTF-16 code units: from
\* the space (32) to the underscore (95), and from a (97) to the tilde (126).
PrintableLow ==
  <<" ", "!", "\"", "#", "$", "%", "&", "'", "(", ")", "*", "+", ",", "-", ".",
    "/", "0", "1", "2", "3", "4", "5", "6", "7", "8", "9", ":", ";", "<", "=",
    ">", "?", "@", "A", "B", "C", "D", "E", "F", "G", "H", "I", "J", "K", "L",
    "M", "N", "O", "P", "Q", "R", "S", "T", "U", "V", "W", "X", "Y", "Z", "[",
    "\\", "]", "^", "_">>
PrintableHigh ==
  <<"a", "b", "c", "d", "e", "f", "g", "h", "i", "j", "k", "l", "m", "n", "o",
    "p", "q", "r", "s", "t", "u", "v", "w", "x", "y", "z", "{", "|", "}", "~">>

\* The UTF-16 code unit of a printable ASCII character (the grave accent, 96,
\* is in no string of the model).
Code(ch) ==
  IF Includes(PrintableLow, ch) THEN 31 + IndexOf(PrintableLow, ch)
  ELSE 96 + IndexOf(PrintableHigh, ch)

\* a < b for two JavaScript strings: by UTF-16 code unit, a proper prefix first.
RECURSIVE Less(_, _)
Less(a, b) ==
  IF b = <<>> THEN FALSE
  ELSE IF a = <<>> THEN TRUE
  ELSE IF Head(a) = Head(b) THEN Less(Tail(a), Tail(b))
  ELSE Code(Head(a)) < Code(Head(b))

omission == <<".", ".", ".">>

\* No truncation at all.
truncate_whole(string, length) == string

\* lodash truncate(string, { length }): a string longer than length is cut so
\* that it has length characters with the omission "..." at its end.
truncate(string, length) ==
  IF length >= Len(string) THEN string
  ELSE LET end == length - Len(omission)
       IN IF end < 1 THEN omission
          ELSE SubSeq(string, 1, end) \o omission

\* The option valued by the zone's code instead of its name.
buildZoneOption_byCode(zone) ==
  [value |-> zone.code,
   label |-> truncate(Chars(zone.name), 30) \o <<" ", "-", " ">> \o Chars(zone.code)]

\* lines 89-91
buildZoneOption(zone) ==
  [value |-> zone.name,
   label |-> truncate(Chars(zone.name), 30) \o <<" ", "-", " ">> \o Chars(zone.code)]

\* lodash orderBy(options, 'label'): ascending, stable.
RECURSIVE InsertByLabel(_, _)
InsertByLabel(sorted, option) ==
  IF sorted = <<>> THEN <<option>>
  ELSE IF Less(option.label, Head(sorted).label)
       THEN <<option>> \o sorted
       ELSE <<Head(sorted)>> \o InsertByLabel(Tail(sorted), option)

\* The sort left out: the options stay in the order of the zones.
orderBy_unsorted(options) == options

RECURSIVE orderBy(_)
orderBy(options) ==
  IF options = <<>> THEN <<>>
  ELSE InsertByLabel(orderBy(SubSeq(options, 1, Len(options) - 1)),
                     options[Len(options)])

\* line 105: orderBy((info || []).map(buildZoneOption), 'label')
BuildZoneOptions(info) ==
  LET zones == IF info = Nil THEN <<>> ELSE info[1]
  IN orderBy([i \in 1..Len(zones) |-> buildZoneOption(zones[i])])

\* The effect of lines 108-115 for option list options and value prop v: Nil
\* when onChange is not called, else Some(target) of the call.
ResetZone(options, v) ==
  IF v # NullV /\ v # "" /\ ~\E i \in 1..Len(options) : options[i].value = v
  THEN Some([name |-> "zone", value |-> NullV])
  ELSE Nil

\* The zones drawn zone lists are made of: two that differ in the letter case
\* of their first character, two whose names agree on more than their first 30
\* characters, one of exactly 30.
ZonePool ==
  {[code |-> "CA", name |-> "California"],
   [code |-> "AG", name |-> "aargau"],
   [code |-> "DH", name |-> "Dadra and Nagar Haveli and Daman and Diu"],
   [code |-> "DZ", name |-> "Dadra and Nagar Haveli and Daman"],
   [code |-> "FC", name |-> "Federal Capital Territory Area"]}

\* The info prop: undefined, or a list of at most MaxZones different zones.
DrawnInfos ==
  {Nil} \cup {Some(zs) : zs \in {l \in SeqsUpTo(ZonePool, MaxZones) : Distinct(l)}}

\* The value prop: null, the empty string, a zone name, a zone code.
ZoneValues == {NullV, "", "California", "CA"}

NoZoneEvent == [kind |-> "none", before |-> NullV, update |-> Nil]

ZoneIdle ==
  /\ zpc = "idle"
  /\ zinfo = Nil
  /\ zvalue = NullV
  /\ zoneOptions = <<>>
  /\ zev = NoZoneEvent

ZoneInit ==
  /\ zpc = "off"
  /\ zinfo = Nil
  /\ zvalue = NullV
  /\ zoneOptions = <<>>
  /\ zev = NoZoneEvent

\* A render of ZoneSelect whose info prop is new (lines 105-115): the option
\* list is built again and the effect runs on it. The caller stores the field
\* update the effect sends.
ZoneRender(kind, info, v) ==
  LET options == BuildZoneOptions(info)
      update == ResetZone(options, v)
  IN /\ zinfo' = info
     /\ zoneOptions' = options
     /\ zvalue' = IF update = Nil THEN v ELSE update[1].value
     /\ zev' = [kind |-> kind, before |-> v, update |-> update]

\* ZoneSelect is mounted with props info and value.
ZoneMount(info, v) ==
  /\ zpc = "off"
  /\ zpc' = "on"
  /\ ZoneRender("mount", info, v)

\* The dependency check of useMemo on [info] (line 105), by Object.is: a zone
\* list handed to ZoneSelect is the array of a newly stored schema, never the
\* object handed before; undefined is the same as undefined.
SameInfo(prev, next) == prev = Nil /\ next = Nil

\* ZoneSelect renders again with the info prop handed by the caller. A new zone
\* list rebuilds the option list and runs the effect on it; info undefined
\* after undefined keeps the memoized list, and the effect does not run.
ZoneInfoChange(info) ==
  /\ zpc = "on"
  /\ zpc' = "on"
  /\ IF SameInfo(zinfo, info)
     THEN /\ zev' = [kind |-> "info", before |-> zvalue, update |-> Nil]
          /\ UNCHANGED <<zinfo, zvalue, zoneOptions>>
     ELSE ZoneRender("info", info, zvalue)

\* The effect run at every change of the value prop as well.
ZoneValueChange_checked(v) ==
  /\ zpc = "on"
  /\ v # zvalue
  /\ zpc' = "on"
  /\ ZoneRender("value", zinfo, v)

\* The value prop changes while the zone list stays the same object: the option
\* list is not built again and the effect does not run.
ZoneValueChange(v) ==
  /\ zpc = "on"
  /\ v # zvalue
  /\ zvalue' = v
  /\ zev' = [kind |-> "value", before |-> zvalue, update |-> Nil]
  /\ UNCHANGED <<zpc, zinfo, zoneOptions>>

\* Another field of the form changes: ZoneSelect renders again with the props
\* it had; neither the memo nor the effect runs.
ZoneOtherFieldChange ==
  /\ zpc = "on"
  /\ zev' = [kind |-> "other", before |-> zvalue, update |-> Nil]
  /\ UNCHANGED <<zpc, zinfo, zvalue, zoneOptions>>

\* ------------------------------------------------------------------ serializeAddress, applied

SerIdle ==
  /\ spc = "idle"
  /\ serIn = Nil
  /\ serOut = Nil

SerInit ==
  /\ spc = "in"
  /\ serIn = Nil
  /\ serOut = Nil

\* serializeAddress(address)
Serialize(address) ==
  /\ spc = "in"
  /\ serIn' = Some(address)
  /\ serOut' = Some(serializeAddress(address))
  /\ spc' = "out"

\* ------------------------------------------------------------------ the schema provider

NoCountry == "<none>"

\* The country codes the caller selects: two whose schemas resolve to
\* different field sets and one whose template holds no token at all. SchemaOf
\* gives the sample response of addressFormatter.getCountry for each of them,
\* and for US (zones; what missingCountries are asked as) and XN (a template
\* with only a token the code does not know).
Countries == {"DE", "FR", "XE"}

\* The codes the provider answers with a schema: the countries above and US.
Provided == Countries \cup {"US"}

LabelsAll ==
  <<<<"address1", "Address">>, <<"address2", "Apartment">>, <<"city", "City">>,
    <<"country", "Country">>, <<"postalCode", "Postal code">>, <<"zone", "State">>>>

OptionalAll == <<<<"address2", "Apartment (optional)">>>>

Underscore == <<"_">>

SchemaOf(c) ==
  CASE c = "DE" ->
         [edit |-> Some(Flatten(<<Brace("address1"), Underscore, Brace("zip"),
                                  Brace("city"), Underscore, Brace("country")>>)),
          labels |-> LabelsAll, optionalLabels |-> OptionalAll, zones |-> Some(<<>>)]
    [] c = "FR" ->
         [edit |-> Some(Flatten(<<Brace("address1"), Underscore, Brace("address2"),
                                  Underscore, Brace("zip"), Brace("city"), Underscore,
                                  Brace("country")>>)),
          labels |-> LabelsAll, optionalLabels |-> OptionalAll, zones |-> Some(<<>>)]
    [] c = "US" ->
         [edit |-> Some(Flatten(<<Brace("address1"), Underscore, Brace("city"),
                                  Brace("province"), Brace("zip"), Underscore,
                                  Brace("country")>>)),
          labels |-> LabelsAll, optionalLabels |-> OptionalAll, zones |-> Some(ZonesUS)]
    [] c = "XE" ->
         [edit |-> Some(<<>>),
          labels |-> LabelsAll, optionalLabels |-> OptionalAll, zones |-> Some(<<>>)]
    [] c = "XN" ->
         [edit |-> Some(Brace("country")),
          labels |-> LabelsAll, optionalLabels |-> OptionalAll, zones |-> Some(<<>>)]

\* ------------------------------------------------------------------ I18nAddressFields

missingCountries == <<"AS", "AQ", "GU", "MH", "FM", "MP", "PW", "PR", "VI">>

\* The remapping left out: the provider is asked for the selected code.
CountryFor_asSelected(selected) == selected

\* line 333
CountryFor(selected) == IF Includes(missingCountries, selected) THEN "US" ELSE selected

\* What the component returns (lines 375-402): "null", "placeholder" or "fields".
Render ==
  IF selectedCountry = NoCountry THEN "null"
  ELSE IF loading \/ fields = Nil THEN "placeholder"
  ELSE "fields"

\* The fields handed to the renderer, one call of Component per field, in order.
RenderedFields == IF mounted = "yes" /\ Render = "fields" THEN fields[1] ELSE <<>>

\* The required prop of the caller: left out, true or false.
RequiredProps == {"undefined", "true", "false"}

\* The caller's override left out: the optional labels alone decide.
Required_noOverride(required, fieldName) ==
  ~Includes(Keys(IF data = Nil THEN <<>> ELSE data[1].optionalLabels), fieldName)

\* The required prop handed to the renderer of field fieldName (line 393) when
\* the caller's required prop is required.
Required(required, fieldName) ==
  IF required = "false" THEN FALSE
  ELSE ~Includes(Keys(IF data = Nil THEN <<>> ELSE data[1].optionalLabels), fieldName)

Pending == {i \in 1..Len(fetches) : fetches[i].status = "pending"}

\* target and prev are those of a field change: the { name, value } of the
\* event and the caller's value object as it is after the handler ran.
NoEvent ==
  [kind |-> "none", fetch |-> 0, stale |-> FALSE, live |-> FALSE,
   emitted |-> Nil, success |-> Nil, error |-> FALSE, target |-> Nil, prev |-> Nil,
   successThrew |-> FALSE]

CompIdle ==
  /\ mounted = "off"
  /\ selectedCountry = NoCountry
  /\ value = Nil
  /\ data = Nil
  /\ fields = Nil
  /\ loading = TRUE
  /\ fetches = <<>>
  /\ ev = NoEvent
  /\ fieldsFrom = 0
  /\ dataFrom = 0
  /\ emitFrom = 0
  /\ locale = "en"

CompInit ==
  /\ mounted = "no"
  /\ selectedCountry = NoCountry
  /\ value = Nil
  /\ data = Nil
  /\ fields = Nil
  /\ loading = TRUE
  /\ fetches = <<>>
  /\ ev = NoEvent
  /\ fieldsFrom = 0
  /\ dataFrom = 0
  /\ emitFrom = 0
  /\ locale = "en"

\* The values a caller hands the component when it mounts it.
InitialValues ==
  {Nil, Some(<<>>),
   Some(<<<<"address1", "Main St">>, <<"zone", "California">>>>)}

\* fetchData() up to its await (lines 348-351), called by the effect of the
\* render whose props are country c and value v.
StartFetch(c, v) ==
  /\ fetches' = Append(fetches, [country |-> CountryFor(c), value |-> v,
                                 status |-> "pending", late |-> FALSE])
  /\ loading' = TRUE

\* The first render and its effects (lines 336-373).
Mount(c, v) ==
  /\ mounted = "no"
  /\ mounted' = "yes"
  /\ selectedCountry' = c
  /\ value' = v
  /\ data' = Nil
  /\ fields' = Nil
  /\ StartFetch(c, v)
  /\ ev' = [NoEvent EXCEPT !.kind = "mount", !.fetch = Len(fetches) + 1, !.live = TRUE]
  /\ UNCHANGED <<fieldsFrom, dataFrom, emitFrom, locale>>

\* The caller selects another country: the effect of line 347 runs again. The
\* caller keeps its AddressValue or (UserLocationInput, line 195) drops it.
ChangeCountry(c, keep) ==
  /\ mounted = "yes"
  /\ c # selectedCountry
  /\ Len(fetches) < MaxFetches
  /\ selectedCountry' = c
  /\ value' = IF keep THEN value ELSE Some(<<>>)
  /\ StartFetch(c, value')
  /\ ev' = [NoEvent EXCEPT !.kind = "country", !.fetch = Len(fetches) + 1, !.live = TRUE]
  /\ UNCHANGED <<mounted, data, fields, fieldsFrom, dataFrom, emitFrom, locale>>

\* The caller stops rendering the component (UserLocationInput, lines 198-221).
Unmount ==
  /\ mounted = "yes"
  /\ mounted' = "gone"
  /\ ev' = [NoEvent EXCEPT !.kind = "unmount"]
  /\ UNCHANGED <<selectedCountry, value, data, fields, loading, fetches,
                 fieldsFrom, dataFrom, emitFrom, locale>>

\* What a callback of the caller may throw: an Error object, or null (a
\* throw statement takes any value, undefined and null included).
ThrownValues == {"Error", NullV}

\* The catch of lines 359-362 logs e.message: reading a property of null or
\* undefined throws a TypeError inside the catch block, which leaves the inner
\* try statement.
WarnThrows(e) == e = NullV

\* The rest of fetchData() (lines 351-369) once getCountry resolved for call i.
\* A state setter of a component that is no longer mounted does nothing; the
\* callbacks are those of the caller and are called all the same. The caller
\* keeps the value handed to onCountryChange as its AddressValue.
\* thrown is what the caller's onLoadSuccess throws: Nil when it returns.
Resolution(i, thrown) ==
  /\ i \in Pending
  /\ fetches[i].country \in Provided
  /\ LET live == mounted = "yes"
         response == SchemaOf(fetches[i].country)
         w == wrangleAddressData(response)
         r == getAddressFieldDifferences(fetches[i].value, w.ret)
         threw == w.threw \/ r.threw
         successThrows == ~threw /\ thrown # Nil
         \* the catch of line 363 runs
         caught == threw \/ (successThrows /\ WarnThrows(thrown[1]))
     IN /\ data' = IF live THEN Some(response) ELSE data
        /\ dataFrom' = IF live THEN i ELSE dataFrom
        /\ fields' = IF live /\ ~w.threw THEN Some(w.ret) ELSE fields
        /\ fieldsFrom' = IF live /\ ~w.threw THEN i ELSE fieldsFrom
        /\ value' = IF threw THEN value ELSE Some(r.ret)
        /\ emitFrom' = IF threw THEN emitFrom ELSE i
        /\ loading' = IF live THEN FALSE ELSE loading
        /\ fetches' = [fetches EXCEPT ![i].status = IF caught THEN "threw" ELSE "resolved",
                                      ![i].late = i # Len(fetches)]
        /\ ev' = [kind |-> IF caught THEN "threw" ELSE "resolved",
                  fetch |-> i, stale |-> i # Len(fetches), live |-> live,
                  emitted |-> IF threw THEN Nil ELSE Some(r.ret),
                  success |-> IF threw THEN Nil ELSE Some(w.ret),
                  error |-> caught, target |-> Nil, prev |-> Nil,
                  successThrew |-> successThrows]
  /\ UNCHANGED <<mounted, selectedCountry, locale>>

\* getCountry resolved for call i and the caller's onLoadSuccess returns.
FetchResolves(i) == Resolution(i, Nil)

\* getCountry resolved for call i and the caller's onLoadSuccess throws e.
FetchResolvesSuccessThrows(i, e) == Resolution(i, Some(e))

\* The rest of fetchData() (lines 363-369) once getCountry rejected for call i.
FetchRejects(i) ==
  /\ i \in Pending
  /\ LET live == mounted = "yes"
     IN /\ loading' = IF live THEN FALSE ELSE loading
        /\ fetches' = [fetches EXCEPT ![i].status = "rejected",
                                      ![i].late = i # Len(fetches)]
        /\ ev' = [kind |-> "rejected", fetch |-> i, stale |-> i # Len(fetches),
                  live |-> live, emitted |-> Nil, success |-> Nil, error |-> TRUE,
                  target |-> Nil, prev |-> Nil, successThrew |-> FALSE]
  /\ UNCHANGED <<mounted, selectedCountry, value, data, fields, fieldsFrom, dataFrom,
                 emitFrom, locale>>

\* lodash set(object, name, fieldValue) on a clone: an own key keeps its place.
SetKey(obj, name, v) ==
  IF HasKey(obj, name)
  THEN [obj EXCEPT ![IndexOf(Keys(obj), name)] = <<name, v>>]
  ELSE Append(obj, <<name, v>>)

\* The key set on the caller's object itself, without the clone.
FieldChange_inPlace(name, v) ==
  /\ mounted = "yes"
  /\ Render = "fields"
  /\ \E i \in 1..Len(fields[1]) : fields[1][i][1] = name
  /\ LET next == SetKey(IF value = Nil THEN <<>> ELSE value[1], name, v)
     IN /\ value' = Some(next)
        /\ ev' = [NoEvent EXCEPT !.kind = "edit", !.live = TRUE, !.emitted = Some(next),
                                 !.target = Some([name |-> name, value |-> v]),
                                 !.prev = IF value = Nil THEN Nil ELSE Some(next)]
  /\ UNCHANGED <<mounted, selectedCountry, data, fields, loading, fetches,
                 fieldsFrom, dataFrom, emitFrom, locale>>

\* The onChange of a rendered field (lines 396-398): the key is set on a deep
\* clone of the caller's value, which is emitted; the caller keeps it.
FieldChange(name, v) ==
  /\ mounted = "yes"
  /\ Render = "fields"
  /\ \E i \in 1..Len(fields[1]) : fields[1][i][1] = name
  /\ LET next == SetKey(IF value = Nil THEN <<>> ELSE value[1], name, v)
     IN /\ value' = Some(next)
        /\ ev' = [NoEvent EXCEPT !.kind = "edit", !.live = TRUE, !.emitted = Some(next),
                                 !.target = Some([name |-> name, value |-> v]),
                                 !.prev = value]
  /\ UNCHANGED <<mounted, selectedCountry, data, fields, loading, fetches,
                 fieldsFrom, dataFrom, emitFrom, locale>>

\* The locales of the application the user switches between.
Locales == {"en", "fr"}

\* intl.locale changes: the effect of lines 341-345 calls
\* addressFormatter.updateLocale; the effect of lines 347-373 depends on
\* selectedCountry alone and does not run.
ChangeLocale(l) ==
  /\ mounted = "yes"
  /\ l # locale
  /\ locale' = l
  /\ ev' = [NoEvent EXCEPT !.kind = "locale", !.live = TRUE]
  /\ UNCHANGED <<mounted, selectedCountry, value, data, fields, loading, fetches,
                 fieldsFrom, dataFrom, emitFrom>>

\* The field the user edits and what is typed into it.
EditNames == {"city"}
FieldInputs == {"x"}

\* ------------------------------------------------------------------ specification

Init ==
  \/ CompInit /\ PureIdle /\ ZoneIdle /\ SerIdle
  \/ CompIdle /\ PureInit /\ ZoneIdle /\ SerIdle
  \/ CompIdle /\ PureIdle /\ ZoneInit /\ SerIdle
  \/ CompIdle /\ PureIdle /\ ZoneIdle /\ SerInit

Next ==
  \/ \E c \in Countries \cup {NoCountry}, v \in InitialValues :
       Mount(c, v) /\ UNCHANGED <<pureVars, zoneVars, serVars>>
  \/ \E c \in Countries \cup {NoCountry}, keep \in BOOLEAN :
       ChangeCountry(c, keep) /\ UNCHANGED <<pureVars, zoneVars, serVars>>
  \/ Unmount /\ UNCHANGED <<pureVars, zoneVars, serVars>>
  \/ \E i \in 1..MaxFetches : FetchResolves(i) /\ UNCHANGED <<pureVars, zoneVars, serVars>>
  \/ \E i \in 1..MaxFetches : FetchRejects(i) /\ UNCHANGED <<pureVars, zoneVars, serVars>>
  \/ \E name \in EditNames, v \in FieldInputs :
       FieldChange(name, v) /\ UNCHANGED <<pureVars, zoneVars, serVars>>
  \/ Wrangle /\ UNCHANGED <<compVars, zoneVars, serVars>>
  \/ \E v \in DrawnValues : Reconcile(v) /\ UNCHANGED <<compVars, zoneVars, serVars>>
  \/ \E info \in DrawnInfos, v \in ZoneValues :
       ZoneMount(info, v) /\ UNCHANGED <<compVars, pureVars, serVars>>
  \/ \E info \in DrawnInfos :
       ZoneInfoChange(info) /\ UNCHANGED <<compVars, pureVars, serVars>>
  \/ \E v \in ZoneValues :
       ZoneValueChange(v) /\ UNCHANGED <<compVars, pureVars, serVars>>
  \/ ZoneOtherFieldChange /\ UNCHANGED <<compVars, pureVars, serVars>>
  \/ \E address \in DrawnObjects :
       Serialize(address) /\ UNCHANGED <<compVars, pureVars, zoneVars>>

Spec == Init /\ [][Next]_vars

\* ------------------------------------------------------------------ more props, fewer runs

\* The component alone, mounted with any of the codes of missingCountries, US
\* or DE, under a locale that changes; the country changes to PR or DE.
MountCodes == Range(missingCountries) \cup {"US", "DE"}
ChangeCodes == {"PR", "DE"}

\* The field the user edits there and what is put into it.
PropsEditNames == {"city"}
PropsFieldInputs == {"x", NullV}

PropsInit == CompInit /\ PureIdle /\ ZoneIdle /\ SerIdle

PropsNext ==
  \/ \E c \in MountCodes, v \in InitialValues :
       Mount(c, v) /\ UNCHANGED <<pureVars, zoneVars, serVars>>
  \/ \E c \in ChangeCodes : ChangeCountry(c, TRUE) /\ UNCHANGED <<pureVars, zoneVars, serVars>>
  \/ \E l \in Locales : ChangeLocale(l) /\ UNCHANGED <<pureVars, zoneVars, serVars>>
  \/ \E name \in PropsEditNames, v \in PropsFieldInputs :
       FieldChange(name, v) /\ UNCHANGED <<pureVars, zoneVars, serVars>>
  \/ \E i \in 1..MaxFetches : FetchResolves(i) /\ UNCHANGED <<pureVars, zoneVars, serVars>>
  \/ \E i \in 1..MaxFetches : FetchRejects(i) /\ UNCHANGED <<pureVars, zoneVars, serVars>>

PropsSpec == PropsInit /\ [][PropsNext]_vars

\* ------------------------------------------------------------------ callbacks that throw

\* The component with a caller whose onLoadSuccess may throw at any resolution.
CallbackInit == CompInit /\ PureIdle /\ ZoneIdle /\ SerIdle

CallbackNext ==
  \/ \E c \in Countries, v \in InitialValues :
       Mount(c, v) /\ UNCHANGED <<pureVars, zoneVars, serVars>>
  \/ \E c \in Countries, keep \in BOOLEAN :
       ChangeCountry(c, keep) /\ UNCHANGED <<pureVars, zoneVars, serVars>>
  \/ Unmount /\ UNCHANGED <<pureVars, zoneVars, serVars>>
  \/ \E i \in 1..MaxFetches : FetchResolves(i) /\ UNCHANGED <<pureVars, zoneVars, serVars>>
  \/ \E i \in 1..MaxFetches : FetchRejects(i) /\ UNCHANGED <<pureVars, zoneVars, serVars>>
  \/ \E i \in 1..MaxFetches, e \in ThrownValues :
       FetchResolvesSuccessThrows(i, e) /\ UNCHANGED <<pureVars, zoneVars, serVars>>

CallbackSpec == CallbackInit /\ [][CallbackNext]_vars

\* ------------------------------------------------------------------ claims

Last == Len(fetches)
Completed == ev.kind \in {"resolved", "threw", "rejected"}
\* Every fetch so far asked for a country, with a value that is not null, and
\* none threw after the provider answered.
WellFormedRun ==
  \A i \in 1..Last :
    /\ fetches[i].country \in Countries
    /\ fetches[i].value # Nil
    /\ fetches[i].status # "threw"

\* Moreover every fetch completed before the next one started.
OrderlyRun == WellFormedRun /\ \A i \in 1..Last : ~fetches[i].late

FieldKeys(fs) == {fs[i][1] : i \in 1..Len(fs)}
ObjKeys(obj) == {obj[i][1] : i \in 1..Len(obj)}

\* C1: once every fetch has completed and the most recently started one
\* resolved, the field list held and the last reconciled value emitted are those
\* of that most recent fetch, whatever the order of completion.
C1_LatestFetchWins ==
  (mounted = "yes" /\ Last > 0 /\ Pending = {} /\ fetches[Last].status = "resolved"
     /\ WellFormedRun)
    => /\ fields = Some(wrangleAddressData(SchemaOf(fetches[Last].country)).ret)
       /\ fieldsFrom = Last
       /\ emitFrom = Last

\* C2: a superseded fetch that is rejected is dropped silently: onLoadError is
\* not called for it and it changes neither loading nor fields.
C2_StaleFailureDropped ==
  [][(fetches' # fetches /\ ev'.kind = "rejected" /\ ev'.stale /\ ev'.live
        /\ WellFormedRun')
       => (~ev'.error /\ loading' = loading /\ fields' = fields)]_vars

\* C3: a fetch for a country that completes after the component was unmounted
\* calls none of onCountryChange, onLoadSuccess, onLoadError.
C3_NothingAfterUnmount ==
  (Completed /\ ~ev.live /\ OrderlyRun)
    => (ev.emitted = Nil /\ ev.success = Nil /\ ~ev.error)

\* C4: when the fetch of the current country is rejected, onLoadError is called
\* and the component holds and renders no field afterwards.
C4_FailureSurfacesNoFields ==
  (ev.kind = "rejected" /\ ev.live /\ OrderlyRun)
    => (ev.error /\ fields \in {Nil, Some(<<>>)} /\ RenderedFields = <<>>)

\* C5: while no country is selected no fetch is started and nothing is rendered.
C5_NoCountryNoPipeline ==
  /\ \A i \in 1..Last : fetches[i].country # NoCountry
  /\ (mounted = "yes" /\ selectedCountry = NoCountry) => Render = "null"

\* C6: the value emitted by a successful resolution, and the result of
\* getAddressFieldDifferences for every drawn value and field list, hold only
\* keys of the field list they were reconciled with.
C6_EmittedKeysInFields ==
  /\ ev.kind = "resolved" => ObjKeys(ev.emitted[1]) \subseteq FieldKeys(ev.success[1])
  /\ (pc = "reconciled" /\ ~recRet[1].threw)
       => ObjKeys(recRet[1].ret) \subseteq FieldKeys(wrangled[1].ret)

\* A resolution that pruned the caller's value and emitted what was left of it.
C6_Witness ==
  /\ ev.kind = "resolved"
  /\ ev.emitted # Nil
  /\ ev.emitted[1] # <<>>
  /\ ev.emitted # fetches[ev.fetch].value

\* C7: with a key outside the field set the result is a new object holding
\* exactly the entries of the previous value whose key is in the field set; with
\* none it is the previous value itself, which serializes as before and
\* reconciles to itself again; the previous value is never modified.
C7_ReconcileFrame ==
  (pc = "reconciled" /\ ~recRet[1].threw) =>
    LET prev == objIn[1][1]
        out == recRet[1]
        names == FieldKeys(wrangled[1].ret)
        again == getAddressFieldDifferences(Some(out.ret), wrangled[1].ret)
    IN /\ objAfter = objIn
       /\ ~(ObjKeys(prev) \subseteq names)
            => /\ ~out.same
               /\ Range(out.ret) = {e \in Range(prev) : e[1] \in names}
               /\ Distinct(Keys(out.ret))
       /\ ObjKeys(prev) \subseteq names
            => /\ out.same
               /\ out.ret = prev
               /\ serializeAddress(out.ret) = serializeAddress(prev)
       /\ again.same /\ again.ret = out.ret

\* A reconciliation that dropped one entry and kept another.
C7_Witness ==
  /\ pc = "reconciled"
  /\ ~recRet[1].threw
  /\ ~recRet[1].same
  /\ recRet[1].ret # <<>>
  /\ Len(recRet[1].ret) < Len(objIn[1][1])

\* The place of the first occurrence in template t of the token spelt by the
\* characters cs, 0 when it does not occur as a whole token.
FirstPos(t, cs) ==
  LET At(p) == /\ p + Len(cs) - 1 <= Len(t)
               /\ SubSeq(t, p, p + Len(cs) - 1) = cs
               /\ (p = 1 \/ t[p - 1] \notin WordChars)
               /\ (p + Len(cs) > Len(t) \/ t[p + Len(cs)] \notin WordChars)
      ps == {p \in 1..Len(t) : At(p)}
  IN IF ps = {} THEN 0 ELSE CHOOSE p \in ps : \A q \in ps : p <= q

\* The place in template t of the first token that resolves to field key k.
KeyPos(t, k) ==
  LET src == {n \in Range(necessaryFields) : MapMatch(n) = k}
      ps == {FirstPos(t, Chars(n)) : n \in src} \ {0}
  IN IF ps = {} THEN 0 ELSE CHOOSE p \in ps : \A q \in ps : p <= q

\* fs holds each recognized token of template t that has a label once, in the
\* order of the tokens' first occurrences, and nothing else.
ResolvedInOrder(fs, t, labels) ==
  /\ Distinct([i \in 1..Len(fs) |-> fs[i][1]])
  /\ FieldKeys(fs) = {k \in ObjKeys(labels) : KeyPos(t, k) # 0}
  /\ \A i \in 1..Len(fs) : fs[i][2] = Get(labels, fs[i][1])
  /\ \A i, j \in 1..Len(fs) : i < j => KeyPos(t, fs[i][1]) < KeyPos(t, fs[j][1])

\* C9: the field list resolved from a template holds each recognized token at
\* most once, in the order of first occurrence, without any unrecognized token;
\* the fields rendered are the fields resolved, in the same order.
C9_FieldsInTemplateOrder ==
  /\ (pc \in {"wrangled", "reconciled"} /\ ~wrangled[1].threw)
       => ResolvedInOrder(wrangled[1].ret, schemaIn[1].edit[1], schemaIn[1].labels)
  /\ (mounted = "yes" /\ Render = "fields")
       => LET schema == SchemaOf(fetches[fieldsFrom].country)
          IN /\ RenderedFields = fields[1]
             /\ ResolvedInOrder(RenderedFields, schema.edit[1], schema.labels)

\* A template with a repeated token and tokens in another order than the labels.
C9_Witness ==
  /\ pc = "wrangled"
  /\ ~wrangled[1].threw
  /\ schemaIn[1].edit[1] = Brace("zip") \o Brace("address1") \o Brace("zip")
  /\ Len(wrangled[1].ret) = 2
  /\ wrangled[1].ret[1][1] = "postalCode"

\* The template of a schema holds no token the code recognizes.
NoRecognizedToken(schema) ==
  schema.edit # Nil /\ \A n \in Range(necessaryFields) : FirstPos(schema.edit[1], Chars(n)) = 0

\* C8: a fetch that resolves while the caller's value is null still succeeds:
\* it emits the empty value and calls no onLoadError.
C8_NullValueIsEmpty ==
  (ev.kind \in {"resolved", "threw"} /\ ev.live /\ ~ev.stale
     /\ fetches[ev.fetch].value = Nil
     /\ ~wrangleAddressData(SchemaOf(fetches[ev.fetch].country)).threw)
    => (ev.kind = "resolved" /\ ev.emitted = Some(<<>>) /\ ~ev.error)

\* C10: a template without any recognized token resolves to the empty field
\* list: the fetch ends resolved with no field and onLoadError is not called.
C10_NoTokenIsEmptyList ==
  (ev.kind \in {"resolved", "threw"} /\ ev.live /\ ~ev.stale
     /\ fetches[ev.fetch].value # Nil
     /\ NoRecognizedToken(SchemaOf(fetches[ev.fetch].country)))
    => (ev.kind = "resolved" /\ fields = Some(<<>>) /\ ~ev.error)

\* C11: whenever the template of a schema holds a word at all, resolution does
\* not fail and resolves no field whose key has no label: a recognized key
\* without a label, zone with a non-empty zone list included, is skipped.
C11_LabelLessKeySkipped ==
  (pc \in {"wrangled", "reconciled"} /\ schemaIn[1].edit # Nil
     /\ RegexMatch(schemaIn[1].edit[1]) # Nil)
    => /\ ~wrangled[1].threw
       /\ FieldKeys(wrangled[1].ret) \subseteq ObjKeys(schemaIn[1].labels)

\* C12: every rendered field is required exactly when its key is not among the
\* optional labels of the schema the fields were resolved from, unless the
\* caller passes required = false: then no field is required.
C12_RequiredUnlessOptional ==
  (mounted = "yes" /\ Render = "fields") =>
    LET optional == ObjKeys(SchemaOf(fetches[fieldsFrom].country).optionalLabels)
    IN \A req \in RequiredProps : \A i \in 1..Len(RenderedFields) :
         LET k == RenderedFields[i][1]
         IN Required(req, k) <=> (req # "false" /\ k \notin optional)

\* Fields are rendered, one of them optional by the schema and one not.
C12_Witness ==
  /\ mounted = "yes"
  /\ Render = "fields"
  /\ "address2" \in FieldKeys(RenderedFields)
  /\ "address1" \in FieldKeys(RenderedFields)
  /\ ~Required("true", "address2")
  /\ Required("undefined", "address1")
  /\ ~Required("false", "address1")

\* The zones handed to ZoneSelect.
ZonesIn == IF zinfo = Nil THEN <<>> ELSE zinfo[1]

\* C13: at the mount of ZoneSelect and at every render that changes its option
\* list, a value that is null or empty causes no update; a value that is the
\* name of a zone of the list is kept and causes no update; any other value, a
\* zone code included, is answered by a field update that sets zone to null.
C13_ZoneMatchedByName ==
  [][(zev'.kind = "mount" \/ (zev'.kind = "info" /\ ~SameInfo(zinfo, zinfo')))
       => LET v == zev'.before
              zones == IF zinfo' = Nil THEN <<>> ELSE zinfo'[1]
              empty == v \in {NullV, ""}
              named == \E i \in 1..Len(zones) : zones[i].name = v
          IN /\ (empty \/ named) => (zev'.update = Nil /\ zvalue' = v)
             /\ (~empty /\ ~named)
                  => (zev'.update = Some([name |-> "zone", value |-> NullV])
                      /\ zvalue' = NullV)]_vars

\* The list holds California (CA) and the value was the code CA: it was cleared.
C13_Witness ==
  /\ zev.kind \in {"mount", "info"}
  /\ \E i \in 1..Len(ZonesIn) : ZonesIn[i] = [code |-> "CA", name |-> "California"]
  /\ zev.before = "CA"
  /\ zev.update # Nil
  /\ zvalue = NullV

\* An upper-case letter as its lower-case letter, any other character as itself.
Lower(ch) ==
  IF Code(ch) >= 65 /\ Code(ch) <= 90 THEN PrintableHigh[Code(ch) - 64] ELSE ch

\* a < b with the letter case ignored
LessIgnoringCase(a, b) ==
  Less([i \in 1..Len(a) |-> Lower(a[i])], [i \in 1..Len(b) |-> Lower(b[i])])

\* The option list holds one option per zone handed in.
OptionsOfZones ==
  /\ Len(zoneOptions) = Len(ZonesIn)
  /\ {zoneOptions[i].value : i \in 1..Len(zoneOptions)}
       = {ZonesIn[i].name : i \in 1..Len(ZonesIn)}

\* C14 as claimed: the option list is in ascending order of label when the
\* letter case is ignored.
C14_SortedIgnoringCase ==
  zpc = "on" =>
    \A i, j \in 1..Len(zoneOptions) :
      i < j => ~LessIgnoringCase(zoneOptions[j].label, zoneOptions[i].label)

\* C14, amended: the option list holds one option per zone, in ascending order
\* of label by UTF-16 code unit, so that an upper-case letter sorts before every
\* lower-case letter.
C14_SortedByCodeUnit ==
  zpc = "on" =>
    /\ OptionsOfZones
    /\ \A i, j \in 1..Len(zoneOptions) :
         i < j => ~Less(zoneOptions[j].label, zoneOptions[i].label)

\* The zones came as aargau, California and the options are California, aargau.
C14_Witness ==
  /\ zpc = "on"
  /\ Len(zoneOptions) >= 2
  /\ ZonesIn[1].name = "aargau"
  /\ ZonesIn[2].name = "California"
  /\ zoneOptions[1].value = "California"
  /\ zoneOptions[2].value = "aargau"

\* The label the option of zone z has when the name is shown as shown.
LabelOf(shown, z) == shown \o <<" ", "-", " ">> \o Chars(z.code)

\* C15 as claimed: a name of at most 30 characters is shown unchanged, a longer
\* one as its first 30 characters and the ellipsis marker.
C15_First30ThenEllipsis ==
  zpc = "on" =>
    \A i \in 1..Len(zoneOptions) : \E k \in 1..Len(ZonesIn) :
      LET name == Chars(ZonesIn[k].name)
          shown == IF Len(name) <= 30 THEN name
                   ELSE SubSeq(name, 1, 30) \o <<".", ".", ".">>
      IN /\ zoneOptions[i].value = ZonesIn[k].name
         /\ zoneOptions[i].label = LabelOf(shown, ZonesIn[k])

\* C15, amended: a name of at most 30 characters is shown unchanged, a longer
\* one as its first 27 characters and the marker "...", 30 characters in all;
\* the label is the shown name, " - " and the code, and the options are in
\* the order of these labels.
C15_CutTo30WithEllipsis ==
  zpc = "on" =>
    /\ \A i \in 1..Len(zoneOptions) : \E k \in 1..Len(ZonesIn) :
         LET name == Chars(ZonesIn[k].name)
             shown == IF Len(name) <= 30 THEN name
                      ELSE SubSeq(name, 1, 27) \o <<".", ".", ".">>
         IN /\ zoneOptions[i].value = ZonesIn[k].name
            /\ zoneOptions[i].label = LabelOf(shown, ZonesIn[k])
            /\ Len(shown) <= 30
    /\ \A i, j \in 1..Len(zoneOptions) :
         i < j => ~Less(zoneOptions[j].label, zoneOptions[i].label)

\* Two names longer than 30 characters that are shown alike: their options are
\* in the order of their codes, not of their names.
C15_Witness ==
  /\ zpc = "on"
  /\ Len(zoneOptions) >= 2
  /\ ZonesIn[1].code = "DZ"
  /\ ZonesIn[2].code = "DH"
  /\ zoneOptions[1].value = ZonesIn[2].name
  /\ zoneOptions[2].value = ZonesIn[1].name
  /\ Less(Chars(ZonesIn[1].name), Chars(ZonesIn[2].name))

\* C16: a change of the locale while the component shows a country starts a
\* fetch of that country's schema.
C16_LocaleChangeRefetches ==
  [][(locale' # locale /\ mounted = "yes" /\ selectedCountry # NoCountry)
       => /\ Len(fetches') = Len(fetches) + 1
          /\ fetches'[Len(fetches')].country = CountryFor(selectedCountry)
          /\ fetches'[Len(fetches')].status = "pending"]_vars

\* C17: the provider is asked for US when the selected code is one of AS, AQ,
\* GU, MH, FM, MP, PW, PR, VI, and for the selected code itself otherwise.
C17_MissingCountriesAskUS ==
  ev.kind \in {"mount", "country"} =>
    fetches[ev.fetch].country =
      IF selectedCountry \in {"AS", "AQ", "GU", "MH", "FM", "MP", "PW", "PR", "VI"}
      THEN "US" ELSE selectedCountry

\* The country was changed from DE to PR and the fetch just started asks for US.
C17_Witness ==
  /\ ev.kind = "country"
  /\ selectedCountry = "PR"
  /\ Len(fetches) = 2
  /\ fetches[1].country = "DE"
  /\ fetches[2].country = "US"

\* Two objects hold the same key/value pairs.
SamePairs(a, b) == Len(a) = Len(b) /\ Range(a) = Range(b)

\* C18: every object that holds the key/value pairs of the object serialized,
\* in whatever insertion order, serializes to the same string.
C18_SerializeIgnoresKeyOrder ==
  spc = "out" =>
    \A other \in DrawnObjects :
      SamePairs(other, serIn[1]) => serializeAddress(other) = serOut[1]

\* An object whose keys were not inserted in lexicographic order.
C18_Witness ==
  /\ spc = "out"
  /\ Len(serIn[1]) = 2
  /\ Less(Chars(serIn[1][2][1]), Chars(serIn[1][1][1]))
  /\ serIn[1][1][2] # serIn[1][2][2]

\* C19 as claimed: an entry whose value is null contributes nothing: the object
\* serializes as it does without its null entries.
C19_NullContributesNothing ==
  spc = "out" =>
    serOut[1] = serializeAddress(SelectSeq(serIn[1], LAMBDA e : e[2] # NullV))

\* The lines of a string: what stands between its line separators.
RECURSIVE Lines(_)
Lines(str) ==
  IF \E i \in 1..Len(str) : str[i] = "\n"
  THEN LET i == CHOOSE k \in 1..Len(str) : str[k] = "\n" /\ \A j \in 1..(k - 1) : str[j] # "\n"
       IN <<SubSeq(str, 1, i - 1)>> \o Lines(SubSeq(str, i + 1, Len(str)))
  ELSE <<str>>

\* C19, amended: the string has one line per key, in lexicographic key order;
\* the line of a null value is empty, the line of any other value is the value.
C19_NullIsAnEmptyLine ==
  spc = "out" =>
    LET obj == serIn[1]
        Rank(k) == Cardinality({e \in Range(obj) : Less(Chars(e[1]), Chars(k))}) + 1
    IN IF obj = <<>> THEN serOut[1] = <<>>
       ELSE /\ Len(Lines(serOut[1])) = Len(obj)
            /\ \A e \in Range(obj) :
                 Lines(serOut[1])[Rank(e[1])] = IF e[2] = NullV THEN <<>> ELSE Chars(e[2])

\* A null value before another value: the string starts with the empty line.
C19_Witness ==
  /\ spc = "out"
  /\ Len(serIn[1]) = 2
  /\ \E e \in Range(serIn[1]) : e[1] = "address1" /\ e[2] = NullV
  /\ \E e \in Range(serIn[1]) : e[1] = "zone" /\ e[2] = "x"
  /\ serOut[1] = <<"\n", "x">>

\* A schema whose template names at least one field the code recognizes.
WellFormedSchema(schema) == schema.edit # Nil /\ ~NoRecognizedToken(schema)

\* C20: a mount with a country and every change to a country start exactly one
\* fetch and turn loading on; a fetch of the mounted component that succeeds
\* with a well-formed schema leaves the component resolved, having emitted the
\* reconciled value and the field list once each and called no onLoadError;
\* every completion of a fetch of the mounted component turns loading off.
C20_CountryChangeCycle ==
  [][/\ ((selectedCountry' # selectedCountry \/ (mounted = "no" /\ mounted' = "yes"))
           /\ selectedCountry' # NoCountry)
          => /\ Len(fetches') = Len(fetches) + 1
             /\ fetches'[Len(fetches')].status = "pending"
             /\ loading'
     /\ (fetches' # fetches /\ ev'.kind \in {"resolved", "threw"} /\ ev'.live
           /\ WellFormedSchema(SchemaOf(fetches'[ev'.fetch].country)))
          => /\ ev'.kind = "resolved"
             /\ ~loading'
             /\ ev'.emitted # Nil
             /\ ev'.success # Nil
             /\ fields' = ev'.success
             /\ ~ev'.error
     /\ (fetches' # fetches /\ ev'.kind \in {"resolved", "threw", "rejected"} /\ ev'.live)
          => ~loading']_vars

\* C21: a change of the zone value or of another field leaves the option list
\* as it is, runs no validity check and sends no clearing update: the value
\* set stands, whether it names a zone or not; an update is only ever sent
\* by a step that built the option list.
C21_CheckOnlyOnOptionChange ==
  [][/\ zev'.kind \in {"value", "other"}
          => /\ zoneOptions' = zoneOptions
             /\ zev'.update = Nil
             /\ zev'.kind = "value" => zvalue' # zvalue
             /\ zev'.kind = "other" => zvalue' = zvalue
     /\ zev'.update # Nil => zev'.kind \in {"mount", "info"}]_vars

\* The value was set to the code CA, which names no zone of the list that
\* holds California, and no update was sent.
C21_Witness ==
  /\ zev.kind = "value"
  /\ zvalue = "CA"
  /\ \E i \in 1..Len(ZonesIn) : ZonesIn[i].name = "California"
  /\ zev.update = Nil

\* C22: a field change for key k with value v emits, and hands the caller, a
\* value that maps k to v and every other key of the caller's value (of the
\* empty value when that is null) to what it was, and no further key; the
\* caller's own object is as before, and so are the field list, the loading
\* flag and the fetches.
C22_FieldChangeFrame ==
  [][ev'.kind = "edit" =>
       LET old == IF value = Nil THEN <<>> ELSE value[1]
           new == ev'.emitted[1]
           k == ev'.target[1].name
           v == ev'.target[1].value
       IN /\ value' = ev'.emitted
          /\ Distinct(Keys(new))
          /\ ObjKeys(new) = ObjKeys(old) \cup {k}
          /\ Get(new, k) = v
          /\ \A e \in Range(old) : e[1] # k => e \in Range(new)
          /\ ev'.prev = value
          /\ fields' = fields
          /\ loading' = loading
          /\ fetches' = fetches]_vars

\* The city was x and is set to null in a value that holds an address1 too.
C22_Witness ==
  /\ ev.kind = "edit"
  /\ ev.target = Some([name |-> "city", value |-> NullV])
  /\ ev.prev # Nil
  /\ HasKey(ev.prev[1], "city")
  /\ Get(ev.prev[1], "city") = "x"
  /\ HasKey(ev.prev[1], "address1")
  /\ Get(value[1], "city") = NullV

\* Every fetch so far asked for a country, with a value that is not null, and
\* completed before the next one started.
SequentialRun ==
  \A i \in 1..Last :
    /\ fetches[i].country \in Countries
    /\ fetches[i].value # Nil
    /\ ~fetches[i].late

\* C23: whenever fields are rendered, the schema data held (whose optional
\* labels decide the required flags) and the field list held were set by the
\* same fetch.
C23_DataAndFieldsOfOneFetch ==
  (mounted = "yes" /\ Render = "fields" /\ SequentialRun)
    => /\ dataFrom = fieldsFrom
       /\ data = Some(SchemaOf(fetches[fieldsFrom].country))

\* C24: the value a resolving fetch emits is the caller's value of that moment
\* reconciled with the fields just resolved, not a copy of the value the
\* caller held when the fetch started.
C24_EmitsFromCurrentValue ==
  [][(fetches' # fetches /\ ev'.kind = "resolved" /\ ev'.live /\ value # Nil
        /\ WellFormedRun')
       => ev'.emitted = Some(getAddressFieldDifferences(value, ev'.success[1]).ret)]_vars

\* C25: while the fetch started for the selected country is outstanding, the
\* component is loading and renders no field list.
C25_LoadingWhileOutstanding ==
  (mounted = "yes" /\ selectedCountry # NoCountry /\ Last > 0
     /\ fetches[Last].status = "pending" /\ WellFormedRun)
    => (loading /\ Render = "placeholder" /\ RenderedFields = <<>>)

\* C26: when the caller's onLoadSuccess throws, the resolution stands:
\* onLoadError is not called, the fetch counts as resolved, the value it
\* emitted is the caller's, and a mounted component holds the field list and
\* has stopped loading.
C26_SuccessCallbackMayThrow ==
  ev.successThrew
    => /\ ~ev.error
       /\ ev.kind = "resolved"
       /\ fetches[ev.fetch].status = "resolved"
       /\ ev.emitted # Nil
       /\ value = ev.emitted
       /\ ev.live => (fields = ev.success /\ fieldsFrom = ev.fetch /\ ~loading)

====
